---------------------------- MODULE Spec2Model ----------------------------
(***************************************************************************)
(* mc-trimmer: the pipeline executor, the Trim command with the region     *)
(* manager's save policy, the worker pool driver and the region/entities   *)
(* file codec, as state machines translated from src/mc_trimmer.           *)
(*                                                                         *)
(* Each part of the program has its own specification over its own         *)
(* variables; a specification leaves the other parts' variables at their   *)
(* idle values.                                                            *)
(*   Spec        PipelineExecutor.execute (commands.py)                    *)
(*   SpecFilter  PipelineExecutor._make_filter as a pure function          *)
(*   SpecTrim    Trim.run: open_file, trim, save_to_file (commands.py)     *)
(*   SpecWorld   process_world and its pool, with weak fairness            *)
(*   SpecCodec   a region / entities file: from_file, reset_chunk, bytes,  *)
(*               from_file again (regions.py, entities.py)                 *)
(*   SpecExpand  PipelineExecutor._radially_expand_selection, batch by     *)
(*               batch (commands.py)                                       *)
(*   SpecRegion  Region.reset_chunk and Region.iterate (regions.py)        *)
(***************************************************************************)
EXTENDS Integers, Sequences, FiniteSets, TLC

VARIABLES
    \* ---- PipelineExecutor (commands.py:175-364)
    world,              \* region name -> what GatherMetadata.run gives for it
    start_with,         \* Pipeline.start_with
    pending,            \* region names whose result process_world has not yet delivered
    available_chunks,   \* PipelineExecutor.__available_chunks
    selected_chunks,    \* PipelineExecutor.__selected_chunks
    aliased,            \* __selected_chunks is the very set object __available_chunks
    exec_pc,            \* where execute() is
    step_nr,            \* number of steps of command_chain executed so far
    last_step,          \* the step executed last: its command (and radius)
    csv_file,           \* rows of the file written by the last save_selection
    \* ---- _make_filter applied to one chunk
    f_condition,        \* the Condition
    f_chunk,            \* the ChunkMetadata
    f_result,           \* what the predicate built by _make_filter answers
    f_pc,
    \* ---- Trim.run on one region name (commands.py:105-109)
    t_criteria,         \* the key of CRITERIA_MAPPING
    t_paths,            \* RegionManager._paths
    files,              \* the file system: path -> file, or Absent
    files_before,       \* the file system before the run
    t_region,           \* the Region opened by open_file
    t_todo,             \* indices Region.iterate has still to yield
    t_pc,               \* where Trim.run is
    t_exception,        \* the exception that ended the run, if any
    t_log,              \* the file operations done, in order
    \* ---- process_world (commands.py:158-172)
    w_threads,          \* the `threads` argument
    w_raises,           \* the names for which command.run raises
    w_tasks,            \* batches of names not yet taken by a worker
    w_workers,          \* worker -> the batch it holds and its results so far
    w_outqueue,         \* finished batches, in completion order
    w_chunk,            \* the rest of the batch the iterator is yielding from
    w_delivered,        \* the results yielded to the consumer, in order
    w_pc,               \* where the generator process_world is
    \* ---- a region or entities file: load, reset_chunk, save, load again
    c_kind,             \* "region" (RegionFile) or "entities" (EntitiesFile)
    c_file,             \* the file loaded
    c_loaded,           \* what from_file gave: the object as loaded, or an exception
    c_object,           \* the RegionFile / EntitiesFile as it is now
    c_resets,           \* the indices reset_chunk was called with
    c_calls,            \* the number of reset_chunk calls
    c_trims,            \* the number of trim calls
    c_removed,          \* some reset_chunk call removed an entry from the map
    c_saved,            \* bytes(object), written by the save
    c_reloaded,         \* what from_file gives for the saved bytes
    c_pc,
    \* ---- _radially_expand_selection, batch by batch (commands.py:265-312)
    e_radius,           \* select_radius
    e_available,        \* available_chunks
    e_selection,        \* selection
    e_todo,             \* selected_coords not yet handed to the pool
    e_inflight,         \* the batches the pool is working on
    e_received,         \* the number of batch results received
    e_coords_to_include,
    e_result,           \* the selection after the step
    e_pc,
    \* ---- Region.reset_chunk and Region.iterate (regions.py:138-175)
    r_region,           \* the Region
    r_loaded,           \* the Region as it was opened
    r_resets,           \* the indices reset_chunk was called with
    r_calls,            \* the number of reset_chunk calls
    r_todo,             \* iterate: the indices of full_outer_join still to come
    r_yielded,          \* iterate: the tuples yielded so far
    r_pc

pipeVars == <<world, start_with, pending, available_chunks, selected_chunks,
              aliased, exec_pc, step_nr, last_step, csv_file>>
filterVars == <<f_condition, f_chunk, f_result, f_pc>>
trimVars == <<t_criteria, t_paths, files, files_before, t_region, t_todo, t_pc,
              t_exception, t_log>>
worldVars == <<w_threads, w_raises, w_tasks, w_workers, w_outqueue, w_chunk,
               w_delivered, w_pc>>
codecVars == <<c_kind, c_file, c_loaded, c_object, c_resets, c_calls, c_trims,
               c_removed, c_saved, c_reloaded, c_pc>>
expandVars == <<e_radius, e_available, e_selection, e_todo, e_inflight, e_received,
                e_coords_to_include, e_result, e_pc>>
regionVars == <<r_region, r_loaded, r_resets, r_calls, r_todo, r_yielded, r_pc>>
vars == <<pipeVars, filterVars, trimVars, worldVars, codecVars, expandVars, regionVars>>
notPipe == <<filterVars, trimVars, worldVars, codecVars, expandVars, regionVars>>
notFilter == <<pipeVars, trimVars, worldVars, codecVars, expandVars, regionVars>>
notTrim == <<pipeVars, filterVars, worldVars, codecVars, expandVars, regionVars>>
notWorld == <<pipeVars, filterVars, trimVars, codecVars, expandVars, regionVars>>
notCodec == <<pipeVars, filterVars, trimVars, worldVars, expandVars, regionVars>>
notExpand == <<pipeVars, filterVars, trimVars, worldVars, codecVars, regionVars>>
notRegion == <<pipeVars, filterVars, trimVars, worldVars, codecVars, expandVars>>

\* An optional value (Python's None or a value v) is the sequence <<>> or <<v>>.
None == <<>>
Some(v) == <<v>>
IsSet(opt) == opt # None
Val(opt) == opt[1]

(***************************************************************************)
(* Bounds of the model.                                                    *)
(***************************************************************************)
MaxSteps == 3           \* longest command_chain explored
MaxRadius == 2          \* largest radius of radially_expand_selection
MaxHalfTicks == 6       \* Condition bounds explored: 0 .. MaxHalfTicks half ticks
MaxTime == 3            \* largest inhabited_time of a ChunkMetadata in the pipeline
NumNames == 11          \* length of region_file_names given to process_world
MaxThreads == 2         \* largest pool explored
MaxRaises == 2          \* at most so many names make command.run raise
MaxResets == 3          \* number of reset_chunk calls explored on one file
MaxTrims == 1           \* number of trim calls explored on one file

(***************************************************************************)
(* Condition (pipeline.py:10-16).  The two optional floats are minutes;    *)
(* the model draws them from the rationals h / MinuteDen, written as the   *)
(* numerator h, so that minutes * 1200 falls on and between whole ticks.   *)
(***************************************************************************)
TicksPerMinute == 1200
MinuteDen == 2 * TicksPerMinute

Floor(num, den) == num \div den
Ceil(num, den) == -((-num) \div den)

MinuteValues == {None} \cup {Some(h) : h \in 0 .. MaxHalfTicks}
Condition == [minimum_inhabited_minutes : MinuteValues,
              maximum_inhabited_minutes : MinuteValues]

(***************************************************************************)
(* ChunkMetadata (commands.py:112-120): hash and equality by (x, y) only.  *)
(***************************************************************************)
ChunkMetadata(x, y, t) == [x |-> x, y |-> y, inhabited_time |-> t]
SameCoord(a, b) == a.x = b.x /\ a.y = b.y
region_coordinate(c) == <<c.x \div 32, c.y \div 32>>

\* set.update(iterable) on a set of ChunkMetadata: an element equal (by
\* coordinates) to one already in the set is not inserted; the one already
\* there stays.  `items` is a sequence, taken in order.
RECURSIVE SetUpdate(_, _)
SetUpdate(S, items) ==
    IF items = <<>> THEN S
    ELSE LET c == Head(items)
             S1 == IF \E s \in S : SameCoord(s, c) THEN S ELSE S \cup {c}
         IN  SetUpdate(S1, Tail(items))

\* set.update / set union with a collection whose coordinates are pairwise
\* distinct (any sub-collection of available_chunks): order is immaterial.
SetUpdateFrom(S, T) == S \cup {c \in T : ~ \E s \in S : SameCoord(s, c)}

(***************************************************************************)
(* PipelineExecutor._make_filter (commands.py:314-330).  Both lambdas      *)
(* close over the one local variable `ticks`; they read it when the        *)
(* predicate is called, i.e. after _make_filter has run to its end.        *)
(***************************************************************************)
MinTicks(condition) ==
    Floor(Val(condition.minimum_inhabited_minutes) * TicksPerMinute, MinuteDen)
MaxTicks(condition) ==
    Ceil(Val(condition.maximum_inhabited_minutes) * TicksPerMinute, MinuteDen)

\* the value of `ticks` when _make_filter returns
TicksAtReturn(condition) ==
    IF IsSet(condition.maximum_inhabited_minutes) THEN MaxTicks(condition)
    ELSE IF IsSet(condition.minimum_inhabited_minutes) THEN MinTicks(condition)
    ELSE 0

\* the `ticks` the first lambda (x.inhabited_time >= ticks) reads when called
TicksSeenByMinimum(condition) == TicksAtReturn(condition)
\* the `ticks` the second lambda (x.inhabited_time <= ticks) reads when called
TicksSeenByMaximum(condition) == TicksAtReturn(condition)

make_filter(condition, chunk) ==
    /\ (IsSet(condition.minimum_inhabited_minutes)
            => chunk.inhabited_time >= TicksSeenByMinimum(condition))
    /\ (IsSet(condition.maximum_inhabited_minutes)
            => chunk.inhabited_time <= TicksSeenByMaximum(condition))

\* _run_filter (commands.py:332-339): filter(condition, input)
run_filter(condition, input) == {c \in input : make_filter(condition, c)}

(***************************************************************************)
(* The world the executor runs on.  A region is what GatherMetadata.run    *)
(* meets in it: a CommandError when the region cannot be opened, or the    *)
(* chunks Region.iterate yields, each with what fast_get_property reads    *)
(* from it (None: the field is not there and the read raises).             *)
(***************************************************************************)
Nbt(x, z, t) == [xPos |-> Some(x), zPos |-> Some(z), InhabitedTime |-> Some(t)]
Opened(chunks) == [error |-> FALSE, chunks |-> chunks]
CommandError == [error |-> TRUE, chunks |-> <<>>]

RegionNames == {"r.0.0.mca", "r.-1.0.mca", "r.0.1.mca"}

\* what the reads find in the empty Chunk that Region.iterate yields for an
\* index only the entities file has: its data is b"", no field is found
SentinelNbt == [xPos |-> None, zPos |-> None, InhabitedTime |-> None]

RegionChoices(name) ==
    CASE name = "r.0.0.mca" ->
            { Opened(<<Nbt(0, 0, 1), Nbt(1, 0, MaxTime)>>),
              Opened(<<Nbt(0, 0, 1), [Nbt(1, 0, 0) EXCEPT !.InhabitedTime = None]>>),
              CommandError }
      [] name = "r.-1.0.mca" ->
            { Opened(<<Nbt(-1, 0, 2)>>),
              Opened(<<Nbt(0, 0, 2), Nbt(-1, 0, 0)>>),    \* (0, 0) again, another time
              Opened(<<Nbt(-1, 0, -1)>>) }
      [] OTHER ->
            { Opened(<<Nbt(0, 1, 0), Nbt(1, 1, 2)>>),
              Opened(<<[Nbt(0, 1, 2) EXCEPT !.xPos = None], Nbt(1, 1, 2)>>),
              Opened(<<Nbt(0, 1, 0), SentinelNbt, Nbt(1, 1, 1)>>),
              Opened(<<>>) }

Worlds == {w \in [RegionNames -> UNION {RegionChoices(n) : n \in RegionNames}] :
              \A n \in RegionNames : w[n] \in RegionChoices(n)}

\* Chunk.InhabitedTime (regions.py:45-49): the read, then assert value >= 0
InhabitedTimeRaises(nbt) ==
    \/ nbt.InhabitedTime = None
    \/ Val(nbt.InhabitedTime) < 0

\* A variant of _gather_metadata with the try around the whole loop: the
\* first chunk whose read raises ends the emission for the region.
RECURSIVE gather_metadata_until_failure(_)
gather_metadata_until_failure(chunks) ==
    IF chunks = <<>> THEN <<>>
    ELSE LET c == Head(chunks)
             raises == \/ c.xPos = None
                       \/ c.zPos = None
                       \/ c.InhabitedTime = None
                       \/ Val(c.InhabitedTime) < 0
         IN  IF raises THEN <<>>
             ELSE <<ChunkMetadata(Val(c.xPos), Val(c.zPos), Val(c.InhabitedTime))>>
                  \o gather_metadata_until_failure(Tail(chunks))

\* GatherMetadata._gather_metadata (commands.py:127-133): one ChunkMetadata
\* per chunk whose three reads succeed; any exception drops that chunk only.
RECURSIVE gather_metadata(_)
gather_metadata(chunks) ==
    IF chunks = <<>> THEN <<>>
    ELSE LET c == Head(chunks)
             raises == \/ c.xPos = None
                       \/ c.zPos = None
                       \/ InhabitedTimeRaises(c)
             rest == gather_metadata(Tail(chunks))
         IN  IF raises THEN rest
             ELSE <<ChunkMetadata(Val(c.xPos), Val(c.zPos), Val(c.InhabitedTime))>>
                  \o rest

\* GatherMetadata.run under error_handling_wrapper (commands.py:135-155)
GatherMetadataRun(name) ==
    IF world[name].error THEN [error |-> TRUE, content |-> <<>>]
    ELSE [error |-> FALSE, content |-> gather_metadata(world[name].chunks)]

(***************************************************************************)
(* PipelineExecutor.setup / _gather_all_chunks (commands.py:185-192,       *)
(* 344-364).                                                               *)
(***************************************************************************)
NoStep == [command |-> "none"]
\* no file at the path
NoFile == [exists |-> FALSE, header |-> None, delimiter |-> "", lineterminator |-> "",
           rows |-> <<>>]
ALL_CHUNKS_SELECTED == "all_chunks_selected"
NO_CHUNKS_SELECTED == "no_chunks_selected"

FilterIdle ==
    /\ f_condition = None
    /\ f_chunk = None
    /\ f_result = FALSE
    /\ f_pc = "idle"

PipeInit ==
    /\ world \in Worlds
    /\ start_with \in {ALL_CHUNKS_SELECTED, NO_CHUNKS_SELECTED}
    /\ pending = RegionNames
    /\ available_chunks = {}
    /\ selected_chunks = {}
    /\ aliased = FALSE
    /\ exec_pc = "gather"
    /\ step_nr = 0
    /\ last_step = NoStep
    /\ csv_file = NoFile

\* one result of process_world arrives (completion order: any pending name)
GatherResult(name) ==
    /\ exec_pc = "gather"
    /\ name \in pending
    /\ LET result == GatherMetadataRun(name)
       IN  available_chunks' =
               IF result.error THEN available_chunks
               ELSE SetUpdate(available_chunks, result.content)
    /\ pending' = pending \ {name}
    /\ UNCHANGED <<world, start_with, selected_chunks, aliased, exec_pc,
                   step_nr, last_step, csv_file>>
    /\ UNCHANGED notPipe

\* the end of setup: seed the selection
SetupSeed ==
    /\ exec_pc = "gather"
    /\ pending = {}
    /\ IF start_with = ALL_CHUNKS_SELECTED
       THEN selected_chunks' = available_chunks /\ aliased' = TRUE
       ELSE UNCHANGED <<selected_chunks, aliased>>
    /\ exec_pc' = "chain"
    /\ UNCHANGED <<world, start_with, pending, available_chunks,
                   step_nr, last_step, csv_file>>
    /\ UNCHANGED notPipe

(***************************************************************************)
(* Radial expansion (commands.py:252-312).                                 *)
(***************************************************************************)
\* A variant of _make_circular_kernel without the test x**2 + y**2 <=
\* radius**2: the kernel is the whole square.
make_square_kernel(radius) ==
    { <<sx * x, sy * y>> :
        <<x, y, sx, sy>> \in (0 .. radius) \X (0 .. radius) \X {1, -1} \X {1, -1} }
    \ { <<0, 0>> }

\* _make_circular_kernel (commands.py:252-263)
make_circular_kernel(radius) ==
    { <<sx * x, sy * y>> :
        <<x, y, sx, sy>> \in
            { q \in (0 .. radius) \X (0 .. radius) \X {1, -1} \X {1, -1} :
                q[1] * q[1] + q[2] * q[2] <= radius * radius } }
    \ { <<0, 0>> }

Coord(c) == <<c.x, c.y>>

\* filter_for_neighbors (commands.py:291-297), on one batch of coordinates
filter_for_neighbors(kernel, inputs) ==
    { <<coord[1] + offset[1], coord[2] + offset[2]>> :
        <<coord, offset>> \in inputs \X kernel }

\* set difference of two sets of ChunkMetadata (equality by coordinates)
SetDifference(S, T) == {c \in S : ~ \E t \in T : SameCoord(c, t)}

\* A variant of _radially_expand_selection that forgets to look the marked
\* coordinates up in the available chunks: every neighbour becomes a chunk.
radially_expand_unchecked(select_radius, available, selection) ==
    SetUpdateFrom(selection,
        { ChunkMetadata(n[1], n[2], 0) :
            n \in filter_for_neighbors(make_circular_kernel(select_radius),
                                       {Coord(c) : c \in selection}) })

\* _radially_expand_selection (commands.py:265-312).  The selection is cut
\* into batches; each batch's neighbours are intersected with the unselected
\* coordinates and the results are united.
radially_expand_selection(select_radius, available, selection) ==
    LET kernel == make_circular_kernel(select_radius)
        selected_coords == {Coord(c) : c \in selection}
        currently_unselected_coords ==
            {Coord(c) : c \in SetDifference(available, selection)}
        coords_to_include ==
            filter_for_neighbors(kernel, selected_coords)
                \cap currently_unselected_coords
    IN  SetUpdateFrom(selection,
                      {c \in available : Coord(c) \in coords_to_include})

(***************************************************************************)
(* write_mca_selection (mca_selector.py:7-23).  The file is the dialect of  *)
(* the csv writer (no writeheader call; delimiter; line terminator) and    *)
(* its rows, each with the number of times it was written: the rows come   *)
(* in the iteration order of a set.  A row is its four fields in the order *)
(* of fieldnames.                                                          *)
(***************************************************************************)
\* A variant of the row that divides the way C or Java do, truncating
\* toward zero.
CsvRowTruncated(coord) ==
    LET quot(a) == IF a < 0 THEN -((-a) \div 32) ELSE a \div 32
    IN  <<quot(coord[1]), quot(coord[2]), coord[1], coord[2]>>

\* the dictionary given to writer.writerow (lines 16-23); // floors
CsvRow(coord) == <<coord[1] \div 32, coord[2] \div 32, coord[1], coord[2]>>

\* the iterable ((c.x, c.y) for c in chunks) (commands.py:241): every
\* coordinate with the number of times it is produced
CoordsOf(chunks) ==
    [coord \in {Coord(c) : c \in chunks} |->
        Cardinality({c \in chunks : Coord(c) = coord})]

\* `selection` maps each coordinate to the number of times the iterable
\* produces it; one row is written each time
write_mca_selection(selection) ==
    [exists |-> TRUE, header |-> None, delimiter |-> ";", lineterminator |-> "\n",
     rows |-> [row \in {CsvRow(coord) : coord \in DOMAIN selection} |->
                  selection[<<row[3], row[4]>>]]]

(***************************************************************************)
(* PipelineExecutor.execute, one step of command_chain                     *)
(* (commands.py:207-250).  The chain is any sequence of at most MaxSteps   *)
(* steps: each action takes the next step of the chain.                    *)
(***************************************************************************)
InChain == exec_pc = "chain" /\ step_nr < MaxSteps

\* `self.__selected_chunks.update(...)`: the set object is changed in place,
\* so the change is seen through every name bound to that object.
UpdateSelectedInPlace(new) ==
    /\ selected_chunks' = new
    /\ available_chunks' = IF aliased THEN new ELSE available_chunks
    /\ UNCHANGED aliased

\* A variant of the Filter case that removes the rejected chunks from the
\* set object itself instead of binding the name to a new set.
StepFilterInPlace(condition) ==
    /\ InChain
    /\ UpdateSelectedInPlace(run_filter(condition, selected_chunks))
    /\ step_nr' = step_nr + 1
    /\ last_step' = [command |-> "filter_selection"]
    /\ UNCHANGED <<world, start_with, pending, exec_pc, csv_file>>
    /\ UNCHANGED notPipe

\* case Filter(): the selection is rebound to a new set
StepFilter(condition) ==
    /\ InChain
    /\ selected_chunks' = run_filter(condition, selected_chunks)
    /\ aliased' = FALSE
    /\ step_nr' = step_nr + 1
    /\ last_step' = [command |-> "filter_selection"]
    /\ UNCHANGED <<world, start_with, pending, available_chunks, exec_pc, csv_file>>
    /\ UNCHANGED notPipe

\* case Extend()
StepExtend(condition) ==
    /\ InChain
    /\ UpdateSelectedInPlace(
            SetUpdateFrom(selected_chunks, run_filter(condition, available_chunks)))
    /\ step_nr' = step_nr + 1
    /\ last_step' = [command |-> "extend_selection"]
    /\ UNCHANGED <<world, start_with, pending, exec_pc, csv_file>>
    /\ UNCHANGED notPipe

\* case RadiallyExpandSelection()
StepRadiallyExpand(radius) ==
    /\ InChain
    /\ UpdateSelectedInPlace(
            SetUpdateFrom(selected_chunks,
                radially_expand_selection(radius, available_chunks, selected_chunks)))
    /\ step_nr' = step_nr + 1
    /\ last_step' = [command |-> "radially_expand_selection", radius |-> radius]
    /\ UNCHANGED <<world, start_with, pending, exec_pc, csv_file>>
    /\ UNCHANGED notPipe

\* case SaveSelection()
StepSaveSelection ==
    /\ InChain
    /\ csv_file' = write_mca_selection(CoordsOf(selected_chunks))
    /\ step_nr' = step_nr + 1
    /\ last_step' = [command |-> "save_selection"]
    /\ UNCHANGED <<world, start_with, pending, available_chunks, selected_chunks,
                   aliased, exec_pc>>
    /\ UNCHANGED notPipe

\* case _: the step kinds of PipelineStep (pipeline.py:84-94) that execute
\* has no case for
UnimplementedCommands ==
    {"delete_selected_chunks", "select_affected_regions", "invert_selection",
     "move_selected"}

\* A variant of the default case that passes over the step and goes on
\* with the chain instead of raising.
StepUnimplementedSkipped(command) ==
    /\ InChain
    /\ step_nr' = step_nr + 1
    /\ last_step' = [command |-> command]
    /\ UNCHANGED <<world, start_with, pending, available_chunks, selected_chunks,
                   aliased, exec_pc, csv_file>>
    /\ UNCHANGED notPipe

StepUnimplemented(command) ==
    /\ InChain
    /\ exec_pc' = "raised"
    /\ last_step' = [command |-> command]
    /\ UNCHANGED <<world, start_with, pending, available_chunks, selected_chunks,
                   aliased, step_nr, csv_file>>
    /\ UNCHANGED notPipe

\* the chain is exhausted
ChainEnd ==
    /\ exec_pc = "chain"
    /\ exec_pc' = "finished"
    /\ UNCHANGED <<world, start_with, pending, available_chunks, selected_chunks,
                   aliased, step_nr, last_step, csv_file>>
    /\ UNCHANGED notPipe

(***************************************************************************)
(* _make_filter as a pure function: a Condition and a chunk are drawn,     *)
(* and the predicate built from the Condition is applied to the chunk.     *)
(***************************************************************************)
PipeIdle ==
    /\ world = [n \in RegionNames |-> CommandError]
    /\ start_with = NO_CHUNKS_SELECTED
    /\ pending = {}
    /\ available_chunks = {}
    /\ selected_chunks = {}
    /\ aliased = FALSE
    /\ exec_pc = "idle"
    /\ step_nr = 0
    /\ last_step = NoStep
    /\ csv_file = NoFile

FilterInit ==
    /\ f_condition \in Condition
    /\ f_chunk \in {ChunkMetadata(0, 0, t) : t \in 0 .. MaxTime}
    /\ f_result = FALSE
    /\ f_pc = "built"

ApplyFilter ==
    /\ f_pc = "built"
    /\ f_result' = make_filter(f_condition, f_chunk)
    /\ f_pc' = "called"
    /\ UNCHANGED <<f_condition, f_chunk>>
    /\ UNCHANGED notFilter

(***************************************************************************)
(* The region / entities file format (regions.py, entities.py; the sizes,  *)
(* the tables and to_bytes are those of section 4.A / 4.D of the           *)
(* specification).                                                         *)
(*                                                                         *)
(* Bytes are modelled sector by sector.  A chunk payload is a `body`: its  *)
(* 5-byte header (length, compression), whether the data inflates, and     *)
(* what the decompressed NBT holds.  The k-th sector of a payload is the   *)
(* token [body, part = k]; such a token stands for the sector's bytes      *)
(* including the zero padding after the payload.  A byte string is a       *)
(* sequence of sectors and the number of bytes missing at its end (a file  *)
(* may end right after its last payload, before the sector boundary).      *)
(***************************************************************************)
SECTOR == 4096
CHUNK_HEADER_SIZE == 5
MaxIndex == 1                 \* the tables have entries 0 .. MaxIndex
Indices == 0 .. MaxIndex

GZIP == 1
ZLIB == 2
UNCOMPRESSED == 3
Compression == {GZIP, ZLIB, UNCOMPRESSED}

Body(length, compression, inflates, nbt) ==
    [length |-> length, compression |-> compression, inflates |-> inflates,
     nbt |-> nbt]
NoNbt == [xPos |-> None, zPos |-> None, InhabitedTime |-> None]
ZeroBody == Body(0, 0, FALSE, NoNbt)              \* a sector of zero bytes
ZeroSector == [body |-> ZeroBody, part |-> 0]

\* header + compressed data of a payload, in bytes, and in sectors
PayloadBytes(body) == CHUNK_HEADER_SIZE - 1 + body.length
SectorsOf(body) == Ceil(PayloadBytes(body), SECTOR)
PayloadSectors(body) == [k \in 1 .. SectorsOf(body) |-> [body |-> body, part |-> k - 1]]

Bytes(sectors, missing) == [sectors |-> sectors, missing |-> missing]
EmptyBytes == Bytes(<<>>, 0)                      \* b""
ByteLen(bytes) == Len(bytes.sectors) * SECTOR - bytes.missing

Location(offset, size) == [offset |-> offset, size |-> size]

\* data[offset * SECTOR : (offset + size) * SECTOR] of a file: a Python
\* slice stops at the end of the data.  Sector n >= 2 of the file is
\* file.sectors[n - 1]; sectors 0 and 1 are the two tables.
Slice(file, loc) ==
    LET first == loc.offset - 1
        last == IF loc.offset + loc.size - 2 < Len(file.sectors)
                THEN loc.offset + loc.size - 2 ELSE Len(file.sectors)
        secs == SubSeq(file.sectors, first, last)
    IN  Bytes(secs, IF secs # <<>> /\ last = Len(file.sectors)
                    THEN file.missing ELSE 0)

(***************************************************************************)
(* Chunk (regions.py:25-90).                                               *)
(***************************************************************************)
Chunk(compressed_data, decompressed_data) ==
    [compressed_data |-> compressed_data, decompressed_data |-> decompressed_data]
EmptyChunk == Chunk(EmptyBytes, NoNbt)            \* Chunk(): the sentinel

Returned(value) == [raised |-> FALSE, exception |-> "", value |-> value]
Raised(exception) == [raised |-> TRUE, exception |-> exception, value |-> None]

\* Chunk.from_bytes with Chunk.__init__ (regions.py:26-43, 63-76):
\* None for length 0, the Chunk, or an exception.
Chunk_from_bytes(data) ==
    IF ByteLen(data) < CHUNK_HEADER_SIZE THEN Raised("AssertionError")
    ELSE LET body == data.sectors[1].body
         IN  IF body.length = 0 THEN Returned(None)
             ELSE IF body.compression \notin Compression
                  THEN Raised("ValueError")          \* Compression(compression)
             ELSE IF body.compression # ZLIB
                  THEN Raised("AssertionError")      \* case _: assert False
             ELSE IF ~ body.inflates
                  THEN Raised("zlib.error")
             ELSE Returned(Some(Chunk(data, body.nbt)))

\* A variant of SIZE that counts the header once more on top of the stored
\* bytes, which already begin with it.
SIZE_with_header(payload) == ByteLen(payload.compressed_data) + CHUNK_HEADER_SIZE

\* Chunk.SIZE (regions.py:88-90)
SIZE(payload) == ByteLen(payload.compressed_data)

(***************************************************************************)
(* RegionFile (regions.py:93-135).  chunk_data maps an index to its        *)
(* ChunkDataBase; its domain is the set of indices it holds.               *)
(***************************************************************************)
ChunkDataBase(data, location, timestamp) ==
    [data |-> data, location |-> location, timestamp |-> timestamp]

\* ChunkDataDict.append: the entry is stored at its index
Append_at(chunk_data, index, entry) ==
    [i \in DOMAIN chunk_data \cup {index} |->
        IF i = index THEN entry ELSE chunk_data[i]]

\* dict.pop(index, None)
Pop(chunk_data, index) ==
    [i \in DOMAIN chunk_data \ {index} |-> chunk_data[i]]

EmptyDict == [i \in {} |-> None]

\* RegionFile.__init__ (regions.py:94-114), from index i on
RECURSIVE RegionFile_load(_, _, _)
RegionFile_load(file, i, chunk_data) ==
    IF i > MaxIndex THEN Returned(chunk_data)
    ELSE LET loc == file.locations[i + 1]
             ts == file.timestamps[i + 1]
         IN  IF loc.size > 0 /\ loc.offset >= 2
             THEN LET chunk == Chunk_from_bytes(Slice(file, loc))
                  IN  IF chunk.raised THEN Raised(chunk.exception)
                      ELSE IF chunk.value = None
                           THEN RegionFile_load(file, i + 1, chunk_data)
                      ELSE RegionFile_load(file, i + 1,
                               Append_at(chunk_data, i,
                                   ChunkDataBase(Val(chunk.value), loc, ts)))
             ELSE RegionFile_load(file, i + 1, chunk_data)

RegionFile(chunk_data, dirty) == [chunk_data |-> chunk_data, dirty |-> dirty]

\* RegionFile.from_file (regions.py:123-131)
RegionFile_from_file(file) ==
    LET loaded == RegionFile_load(file, 0, EmptyDict)
    IN  IF loaded.raised THEN loaded
        ELSE Returned(Some(RegionFile(loaded.value, FALSE)))

\* reset_chunk that sets the dirty flag and leaves the entry in chunk_data
RegionFile_reset_chunk_kept(region_file, index) ==
    [chunk_data |-> region_file.chunk_data,
     dirty |-> region_file.dirty \/ index \in DOMAIN region_file.chunk_data]

\* RegionFile.reset_chunk (regions.py:133-135)
RegionFile_reset_chunk(region_file, index) ==
    [chunk_data |-> Pop(region_file.chunk_data, index),
     dirty |-> region_file.dirty \/ index \in DOMAIN region_file.chunk_data]

\* Chunk.conditional_reset (regions.py:78-83); `met` is what the condition
\* answers for the chunk.  The stored bytes are blanked; the chunk object
\* stays where it is.
conditional_reset(chunk, met) ==
    IF chunk.compressed_data # EmptyBytes /\ met
    THEN [chunk |-> [chunk EXCEPT !.compressed_data = EmptyBytes], reset |-> TRUE]
    ELSE [chunk |-> chunk, reset |-> FALSE]

\* RegionFile.trim (regions.py:119-121); `holds` is the set of indices for
\* whose chunk the condition holds
RegionFile_trim(region_file, holds) ==
    [chunk_data |->
        [i \in DOMAIN region_file.chunk_data |->
            [region_file.chunk_data[i] EXCEPT
                !.data = conditional_reset(@, i \in holds).chunk]],
     dirty |-> \/ region_file.dirty
               \/ \E i \in DOMAIN region_file.chunk_data :
                        conditional_reset(region_file.chunk_data[i].data,
                                          i \in holds).reset]

(***************************************************************************)
(* RegionLike.to_bytes (specification 4.D, Save): the layout is rebuilt    *)
(* from scratch, in ascending index order from sector 2.                   *)
(***************************************************************************)
\* the payload's bytes followed by zero padding to the sector boundary
Padded(bytes) == bytes.sectors

RECURSIVE to_bytes_from(_, _, _, _)
to_bytes_from(data, i, cursor, out) ==
    IF i > MaxIndex THEN out
    ELSE IF i \in DOMAIN data /\ SIZE(data[i].data) > 0
         THEN LET sectors_needed == Ceil(SIZE(data[i].data), SECTOR)
              IN  to_bytes_from(data, i + 1, cursor + sectors_needed,
                      [locations |-> Append(out.locations,
                                            Location(cursor, sectors_needed)),
                       timestamps |-> Append(out.timestamps, data[i].timestamp),
                       sectors |-> out.sectors \o Padded(data[i].data.compressed_data),
                       missing |-> 0])
         ELSE to_bytes_from(data, i + 1, cursor,
                  [locations |-> Append(out.locations, Location(0, 0)),
                   timestamps |-> Append(out.timestamps, 0),
                   sectors |-> out.sectors,
                   missing |-> 0])

to_bytes(data) ==
    to_bytes_from(data, 0, 2,
        [locations |-> <<>>, timestamps |-> <<>>, sectors |-> <<>>, missing |-> 0])

(***************************************************************************)
(* Entity and EntitiesFile (entities.py).                                  *)
(***************************************************************************)
Entity(compressed_data, decompressed_data) ==
    [compressed_data |-> compressed_data, decompressed_data |-> decompressed_data]
EmptyEntity == Entity(EmptyBytes, NoNbt)          \* Entity(): the sentinel

\* decompress (specification 4.A): GZIP and ZLIB inflate, UNCOMPRESSED gives
\* the input back; None when the data does not decode.
decompress(body) ==
    IF body.compression = UNCOMPRESSED \/ body.inflates THEN Some(body.nbt) ELSE None

\* Entity.from_bytes (entities.py:25-39)
Entity_from_bytes(data) ==
    IF ByteLen(data) < CHUNK_HEADER_SIZE THEN Raised("struct.error")
    ELSE LET body == data.sectors[1].body
         IN  IF body.length = 0 THEN Returned(None)
             ELSE IF body.compression \notin Compression
                  THEN Raised("Exception")    \* not a known compression scheme
             ELSE IF decompress(body) = None THEN Returned(None)
             ELSE Returned(Some(Entity(data, Val(decompress(body)))))

\* EntitiesFile._extract_chunks with the loop of from_file
\* (entities.py:54-65, 84-87), from index i on
RECURSIVE EntitiesFile_load(_, _, _)
EntitiesFile_load(file, i, entity_data) ==
    IF i > MaxIndex THEN Returned(entity_data)
    ELSE LET loc == file.locations[i + 1]
             ts == file.timestamps[i + 1]
         IN  IF loc.size > 0 /\ loc.offset >= 2
             THEN LET entity == Entity_from_bytes(Slice(file, loc))
                  IN  IF entity.raised THEN Raised(entity.exception)
                      ELSE IF entity.value = None
                           THEN EntitiesFile_load(file, i + 1, entity_data)
                      ELSE EntitiesFile_load(file, i + 1,
                               Append_at(entity_data, i,
                                   ChunkDataBase(Val(entity.value), loc, ts)))
             ELSE EntitiesFile_load(file, i + 1, entity_data)

EntitiesFile(entity_data, dirty) == [entity_data |-> entity_data, dirty |-> dirty]

\* EntitiesFile.reset_chunk (entities.py:100-102)
EntitiesFile_reset_chunk(entities_file, index) ==
    [entity_data |-> Pop(entities_file.entity_data, index),
     dirty |-> entities_file.dirty \/ index \in DOMAIN entities_file.entity_data]

\* EntitiesFile.trim (entities.py:92-98): reset_chunk for every index of
\* to_delete, the indices for whose entity the condition holds
RECURSIVE EntitiesFile_trim(_, _)
EntitiesFile_trim(entities_file, holds) ==
    LET to_delete == DOMAIN entities_file.entity_data \cap holds
    IN  IF to_delete = {} THEN entities_file
        ELSE LET i == CHOOSE j \in to_delete : TRUE
             IN  EntitiesFile_trim(EntitiesFile_reset_chunk(entities_file, i),
                                   holds \ {i})

\* EntitiesFile.from_file (entities.py:71-89)
EntitiesFile_from_file(file) ==
    LET loaded == EntitiesFile_load(file, 0, EmptyDict)
    IN  IF loaded.raised THEN loaded
        ELSE Returned(Some(EntitiesFile(loaded.value, FALSE)))

(***************************************************************************)
(* Files as they are found on disk.  An entry of the tables is empty or    *)
(* holds a payload; the payloads lie in the file in some order, possibly   *)
(* after unused sectors, and the file may end before the sector boundary.  *)
(***************************************************************************)
NoEntry == [present |-> FALSE, body |-> ZeroBody, timestamp |-> 0]
Entry(body, timestamp) == [present |-> TRUE, body |-> body, timestamp |-> timestamp]

RECURSIVE Place(_, _, _, _)
Place(entries, order, cursor, out) ==
    IF order = <<>> THEN out
    ELSE LET i == Head(order)
         IN  IF entries[i].present
             THEN Place(entries, Tail(order), cursor + SectorsOf(entries[i].body),
                      [locations |-> [out.locations EXCEPT ![i + 1] =
                            Location(cursor, SectorsOf(entries[i].body))],
                       sectors |-> out.sectors \o PayloadSectors(entries[i].body)])
             ELSE Place(entries, Tail(order), cursor, out)

Ascending == [k \in 1 .. MaxIndex + 1 |-> k - 1]
Descending == [k \in 1 .. MaxIndex + 1 |-> MaxIndex + 1 - k]

\* unused: the number of unused (zero) sectors before the first payload;
\* cut: the file ends right after its last payload
MakeFile(entries, order, unused, cut) ==
    LET placed == Place(entries, order, 2 + unused,
                      [locations |-> [k \in 1 .. MaxIndex + 1 |-> Location(0, 0)],
                       sectors |-> [k \in 1 .. unused |-> ZeroSector]])
        last == placed.sectors[Len(placed.sectors)].body
    IN  [locations |-> placed.locations,
         timestamps |-> [k \in 1 .. MaxIndex + 1 |-> entries[k - 1].timestamp],
         sectors |-> placed.sectors,
         missing |-> IF cut /\ placed.sectors # <<>> /\ last.length > 0
                     THEN SectorsOf(last) * SECTOR - PayloadBytes(last) ELSE 0]

EmptyFile == MakeFile([i \in Indices |-> NoEntry], Ascending, 0, FALSE)
Absent == [exists |-> FALSE, file |-> EmptyFile]      \* no file at the path
OnDisk(file) == [exists |-> TRUE, file |-> file]

(***************************************************************************)
(* Region (regions.py:138-175).                                            *)
(***************************************************************************)
Region(region, entities) == [region |-> region, entities |-> entities]
NoRegion == Region(RegionFile(EmptyDict, FALSE), EntitiesFile(EmptyDict, FALSE))

\* Region.iterate (regions.py:163-171): the indices of the full outer join,
\* and what is yielded for an index
full_outer_join(r) == DOMAIN r.region.chunk_data \cup DOMAIN r.entities.entity_data
iterate_chunk(r, i) ==
    IF i \in DOMAIN r.region.chunk_data THEN r.region.chunk_data[i].data ELSE EmptyChunk
iterate_entity(r, i) ==
    IF i \in DOMAIN r.entities.entity_data THEN r.entities.entity_data[i].data
    ELSE EmptyEntity

\* A variant of Region.reset_chunk that forwards to the region file only.
Region_reset_chunk_region_only(r, index) ==
    Region(RegionFile_reset_chunk(r.region, index), r.entities)

\* Region.reset_chunk (regions.py:173-175)
Region_reset_chunk(r, index) ==
    Region(RegionFile_reset_chunk(r.region, index),
           EntitiesFile_reset_chunk(r.entities, index))

(***************************************************************************)
(* Trim (commands.py:85-109).                                              *)
(***************************************************************************)
CriteriaKeys ==
    {"inhabited_time<15s", "inhabited_time<30s", "inhabited_time<1m",
     "inhabited_time<2m", "inhabited_time<3m", "inhabited_time<5m",
     "inhabited_time<10m"}

\* the right-hand sides of CRITERIA_MAPPING, 1200 * q / 4 (commands.py:87-93)
CriteriaQuarters(key) ==
    CASE key = "inhabited_time<15s" -> 1
      [] key = "inhabited_time<30s" -> 2
      [] key = "inhabited_time<1m" -> 4
      [] key = "inhabited_time<2m" -> 8
      [] key = "inhabited_time<3m" -> 12
      [] key = "inhabited_time<5m" -> 20
      [] key = "inhabited_time<10m" -> 40
CriteriaTicks(key) == (TicksPerMinute * CriteriaQuarters(key)) \div 4

\* Chunk.InhabitedTime (regions.py:45-49): fast_get_property fails when the
\* field is not in the decompressed data; a negative value fails the assert
Chunk_InhabitedTime(chunk) ==
    IF chunk.decompressed_data.InhabitedTime = None THEN Raised("LookupError")
    ELSE IF Val(chunk.decompressed_data.InhabitedTime) < 0 THEN Raised("AssertionError")
    ELSE Returned(Val(chunk.decompressed_data.InhabitedTime))

\* the comparison of the lambdas of CRITERIA_MAPPING
CriteriaCompare(inhabited_time, ticks) == inhabited_time <= ticks

\* CRITERIA_MAPPING[key](chunk, entity)
elimination_condition(key, chunk, entity) ==
    LET t == Chunk_InhabitedTime(chunk)
    IN  IF t.raised THEN t
        ELSE Returned(CriteriaCompare(t.value, CriteriaTicks(key)))

(***************************************************************************)
(* RegionManager (commands.py:25-59) over the files of one region name.    *)
(* Paths: the output directories are the input directories when no output  *)
(* directory is given (cli.py:123-127); the backup directories are         *)
(* optional.                                                               *)
(***************************************************************************)
Paths(inplace, backup) ==
    [inp_region |-> "inp/region", inp_entities |-> "inp/entities",
     outp_region |-> IF inplace THEN "inp/region" ELSE "outp/region",
     outp_entities |-> IF inplace THEN "inp/entities" ELSE "outp/entities",
     backup_region |-> IF backup THEN Some("backup/region") ELSE None,
     backup_entities |-> IF backup THEN Some("backup/entities") ELSE None]

FilePaths == {"inp/region", "inp/entities", "outp/region", "outp/entities",
              "backup/region", "backup/entities"}

\* EntitiesFile(b"", b"", b"") (commands.py:35): EntitiesFile.__init__
\* (entities.py:49-52) takes one argument, entity_data
EntitiesFile_of_three_arguments == Raised("TypeError")

\* RegionManager.open_file (commands.py:29-37)
open_file(paths, fs) ==
    LET region == RegionFile_from_file(fs[paths.inp_region].file)
    IN  IF region.raised THEN region
        ELSE LET entities ==
                     IF fs[paths.inp_entities].exists
                     THEN EntitiesFile_from_file(fs[paths.inp_entities].file)
                     ELSE EntitiesFile_of_three_arguments
             IN  IF entities.raised THEN entities
                 ELSE Returned(Some(Region(Val(region.value), Val(entities.value))))

(***************************************************************************)
(* Trim.run (commands.py:105-109) on one region name, under                *)
(* error_handling_wrapper: open_file, trim, save_to_file.                  *)
(***************************************************************************)
EntityBody == Body(50, ZLIB, TRUE, NoNbt)

\* a chunk at index i whose InhabitedTime is the optional value t
ChunkBody(i, t) ==
    Body(100, ZLIB, TRUE, [xPos |-> Some(i), zPos |-> Some(0), InhabitedTime |-> t])

\* what an entry of the region file may hold, for a given criteria key:
\* nothing, or a chunk just below, at or just above the key's ticks, or one
\* whose InhabitedTime is not there or negative
TrimEntries(key, i) ==
    {NoEntry}
    \cup {Entry(ChunkBody(i, Some(CriteriaTicks(key) + d)), i + 1) : d \in {-1, 0, 1}}
    \cup {Entry(ChunkBody(i, None), i + 1), Entry(ChunkBody(i, Some(-1)), i + 1)}

TrimRegionFiles(key) ==
    { MakeFile(entries, Descending, 1, FALSE) :
        entries \in { e \in [Indices -> UNION {TrimEntries(key, i) : i \in Indices}] :
                        \A i \in Indices : e[i] \in TrimEntries(key, i) } }

EntitiesFiles ==
    {Absent} \cup
    { OnDisk(MakeFile([i \in Indices |->
                          IF i \in E THEN Entry(EntityBody, i + 1) ELSE NoEntry],
                      Ascending, 0, FALSE)) :
        E \in {{}, {0}, {MaxIndex}} }

TrimInit ==
    /\ t_criteria \in CriteriaKeys
    /\ t_paths \in {Paths(inplace, backup) : inplace \in BOOLEAN, backup \in BOOLEAN}
    /\ \E region_file \in TrimRegionFiles(t_criteria), entities_file \in EntitiesFiles :
          files = [path \in FilePaths |->
                      CASE path = "inp/region" -> OnDisk(region_file)
                        [] path = "inp/entities" -> entities_file
                        [] OTHER -> Absent]
    /\ files_before = files
    /\ t_region = NoRegion
    /\ t_todo = {}
    /\ t_pc = "open"
    /\ t_exception = ""
    /\ t_log = <<>>

TrimIdle ==
    /\ t_criteria = "inhabited_time<1m"
    /\ t_paths = Paths(TRUE, FALSE)
    /\ files = [path \in FilePaths |-> Absent]
    /\ files_before = files
    /\ t_region = NoRegion
    /\ t_todo = {}
    /\ t_pc = "idle"
    /\ t_exception = ""
    /\ t_log = <<>>

\* the exception escapes command.run: error_handling_wrapper returns a
\* CommandError (commands.py:141-155)
TrimRaise(exception) ==
    /\ t_pc' = "error"
    /\ t_exception' = exception

\* region = manager.open_file(file_name=region_name)
TrimOpen ==
    /\ t_pc = "open"
    /\ LET opened == open_file(t_paths, files)
       IN  IF opened.raised
           THEN TrimRaise(opened.exception) /\ UNCHANGED <<t_region, t_todo>>
           ELSE /\ t_region' = Val(opened.value)
                /\ t_todo' = full_outer_join(Val(opened.value))
                /\ t_pc' = "trim"
                /\ UNCHANGED t_exception
    /\ UNCHANGED <<t_criteria, t_paths, files, files_before, t_log>>
    /\ UNCHANGED notTrim

\* Trim.trim (commands.py:99-103): one turn of the loop, for the index i
\* that iterate yields next (a set is iterated in no particular order)
TrimVisit(i) ==
    /\ t_pc = "trim"
    /\ i \in t_todo
    /\ LET met == elimination_condition(t_criteria, iterate_chunk(t_region, i),
                                        iterate_entity(t_region, i))
       IN  IF met.raised
           THEN TrimRaise(met.exception) /\ UNCHANGED <<t_region, t_todo>>
           ELSE /\ t_region' = IF met.value THEN Region_reset_chunk(t_region, i)
                                ELSE t_region
                /\ t_todo' = t_todo \ {i}
                /\ UNCHANGED <<t_pc, t_exception>>
    /\ UNCHANGED <<t_criteria, t_paths, files, files_before, t_log>>
    /\ UNCHANGED notTrim

\* the loop is over: manager.save_to_file(region=region, ...)
TrimLoopEnd ==
    /\ t_pc = "trim"
    /\ t_todo = {}
    /\ t_pc' = "save_region"
    /\ UNCHANGED <<t_criteria, t_paths, files, files_before, t_region, t_todo,
                   t_exception, t_log>>
    /\ UNCHANGED notTrim

(***************************************************************************)
(* RegionManager.save_to_file (commands.py:39-59), one file operation at a *)
(* time.                                                                   *)
(***************************************************************************)
\* shutil.copy2(src, dst)
copy2(fs, src, dst) == [fs EXCEPT ![dst] = fs[src]]
\* RegionLike.save_to_file(path): the bytes of the object are written
save_bytes(fs, data, dst) == [fs EXCEPT ![dst] = OnDisk(to_bytes(data))]

\* line 42: the copy to the backup directory; it may fail (OSError)
SaveRegionBackup(succeeds) ==
    /\ t_pc = "save_region"
    /\ t_region.region.dirty
    /\ t_paths.backup_region # None
    /\ IF succeeds
       THEN /\ files' = copy2(files, t_paths.inp_region, Val(t_paths.backup_region))
            /\ t_log' = Append(t_log, "backup_region")
            /\ t_pc' = "write_region"
            /\ UNCHANGED t_exception
       ELSE TrimRaise("OSError") /\ UNCHANGED <<files, t_log>>
    /\ UNCHANGED <<t_criteria, t_paths, files_before, t_region, t_todo>>
    /\ UNCHANGED notTrim

\* A variant of line 43 that does not wait for the backup copy: the write
\* is done as soon as the region is found dirty.
SaveRegionWriteNoBackup ==
    /\ t_pc = "save_region"
    /\ t_region.region.dirty
    /\ files' = save_bytes(files, t_region.region.chunk_data, t_paths.outp_region)
    /\ t_log' = Append(t_log, "write_region")
    /\ t_pc' = "save_entities"
    /\ UNCHANGED <<t_criteria, t_paths, files_before, t_region, t_todo, t_exception>>
    /\ UNCHANGED notTrim

\* line 43: region.region.save_to_file(outp_region / file_name)
SaveRegionWrite ==
    /\ \/ t_pc = "write_region"
       \/ /\ t_pc = "save_region"
          /\ t_region.region.dirty
          /\ t_paths.backup_region = None
    /\ files' = save_bytes(files, t_region.region.chunk_data, t_paths.outp_region)
    /\ t_log' = Append(t_log, "write_region")
    /\ t_pc' = "save_entities"
    /\ UNCHANGED <<t_criteria, t_paths, files_before, t_region, t_todo, t_exception>>
    /\ UNCHANGED notTrim

\* A variant of lines 44-47 that writes the region's bytes anew instead of
\* copying the input file.
SaveRegionUnchangedRewritten ==
    /\ t_pc = "save_region"
    /\ ~ t_region.region.dirty
    /\ files' = save_bytes(files, t_region.region.chunk_data, t_paths.outp_region)
    /\ t_log' = Append(t_log, "copy_region")
    /\ t_pc' = "save_entities"
    /\ UNCHANGED <<t_criteria, t_paths, files_before, t_region, t_todo, t_exception>>
    /\ UNCHANGED notTrim

\* lines 44-47: the region is not dirty
SaveRegionUnchanged ==
    /\ t_pc = "save_region"
    /\ ~ t_region.region.dirty
    /\ IF t_paths.inp_region # t_paths.outp_region
       THEN /\ files' = copy2(files, t_paths.inp_region, t_paths.outp_region)
            /\ t_log' = Append(t_log, "copy_region")
       ELSE UNCHANGED <<files, t_log>>
    /\ t_pc' = "save_entities"
    /\ UNCHANGED <<t_criteria, t_paths, files_before, t_region, t_todo, t_exception>>
    /\ UNCHANGED notTrim

\* line 51
SaveEntitiesBackup(succeeds) ==
    /\ t_pc = "save_entities"
    /\ t_region.entities.dirty
    /\ t_paths.backup_entities # None
    /\ IF succeeds
       THEN /\ files' = copy2(files, t_paths.inp_entities, Val(t_paths.backup_entities))
            /\ t_log' = Append(t_log, "backup_entities")
            /\ t_pc' = "write_entities"
            /\ UNCHANGED t_exception
       ELSE TrimRaise("OSError") /\ UNCHANGED <<files, t_log>>
    /\ UNCHANGED <<t_criteria, t_paths, files_before, t_region, t_todo>>
    /\ UNCHANGED notTrim

\* line 52
SaveEntitiesWrite ==
    /\ \/ t_pc = "write_entities"
       \/ /\ t_pc = "save_entities"
          /\ t_region.entities.dirty
          /\ t_paths.backup_entities = None
    /\ files' = save_bytes(files, t_region.entities.entity_data, t_paths.outp_entities)
    /\ t_log' = Append(t_log, "write_entities")
    /\ t_pc' = "returned"
    /\ UNCHANGED <<t_criteria, t_paths, files_before, t_region, t_todo, t_exception>>
    /\ UNCHANGED notTrim

\* lines 53-59: the entities are not dirty
SaveEntitiesUnchanged ==
    /\ t_pc = "save_entities"
    /\ ~ t_region.entities.dirty
    /\ IF /\ t_paths.inp_entities # t_paths.outp_entities
          /\ files[t_paths.inp_entities].exists
       THEN /\ files' = copy2(files, t_paths.inp_entities, t_paths.outp_entities)
            /\ t_log' = Append(t_log, "copy_entities")
       ELSE UNCHANGED <<files, t_log>>
    /\ t_pc' = "returned"
    /\ UNCHANGED <<t_criteria, t_paths, files_before, t_region, t_todo, t_exception>>
    /\ UNCHANGED notTrim

(***************************************************************************)
(* process_world (commands.py:141-172): Pool(threads).imap_unordered with  *)
(* chunksize 10.  The names are cut into batches of 10; a worker takes a   *)
(* batch, applies error_handling_wrapper to its names in order and puts    *)
(* the batch's results on the result queue; the iterator yields the        *)
(* results of the batches in the order the batches were finished.          *)
(***************************************************************************)
chunksize == 10

region_file_names == [k \in 1 .. NumNames |-> k]

RECURSIVE Batched(_, _)
Batched(names, n) ==
    IF names = <<>> THEN <<>>
    ELSE IF Len(names) <= n THEN <<names>>
    ELSE <<SubSeq(names, 1, n)>> \o Batched(SubSeq(names, n + 1, Len(names)), n)

\* command.run(manager, region_name)
command_run(region_name) ==
    IF region_name \in w_raises THEN Raised("Exception")
    ELSE Returned([name |-> region_name, kind |-> "value"])

\* A variant of error_handling_wrapper without the except clauses.
error_handling_wrapper_uncaught(region_name) == command_run(region_name)

\* error_handling_wrapper (commands.py:141-155)
error_handling_wrapper(region_name) ==
    LET result == command_run(region_name)
    IN  IF result.raised
        THEN Returned([name |-> region_name, kind |-> "CommandError"])
        ELSE result

Idle == [batch |-> <<>>, results |-> <<>>, busy |-> FALSE]

\* `if threads is None: threads = 1`
PoolSize == IF w_threads = None THEN 1 ELSE Val(w_threads)
Workers == 1 .. PoolSize

WorldInit ==
    /\ w_threads \in {None} \cup {Some(n) : n \in 1 .. MaxThreads}
    /\ w_raises \in {R \in SUBSET (1 .. NumNames) : Cardinality(R) <= MaxRaises}
    /\ w_tasks = Batched(region_file_names, chunksize)
    /\ w_workers = [w \in Workers |-> Idle]
    /\ w_outqueue = <<>>
    /\ w_chunk = <<>>
    /\ w_delivered = <<>>
    /\ w_pc = "iterating"

WorldIdle ==
    /\ w_threads = None
    /\ w_raises = {}
    /\ w_tasks = <<>>
    /\ w_workers = <<>>
    /\ w_outqueue = <<>>
    /\ w_chunk = <<>>
    /\ w_delivered = <<>>
    /\ w_pc = "idle"

\* a worker takes the next batch from the task queue
WorkerTake(w) ==
    /\ w_pc = "iterating"
    /\ ~ w_workers[w].busy
    /\ w_tasks # <<>>
    /\ w_workers' = [w_workers EXCEPT ![w] =
                        [batch |-> Head(w_tasks), results |-> <<>>, busy |-> TRUE]]
    /\ w_tasks' = Tail(w_tasks)
    /\ UNCHANGED <<w_threads, w_raises, w_outqueue, w_chunk, w_delivered, w_pc>>
    /\ UNCHANGED notWorld

\* the worker applies foo to the next name of its batch
WorkerRun(w) ==
    /\ w_pc = "iterating"
    /\ w_workers[w].busy
    /\ w_workers[w].batch # <<>>
    /\ w_workers' = [w_workers EXCEPT ![w] =
                        [batch |-> Tail(@.batch),
                         results |-> Append(@.results,
                                            error_handling_wrapper(Head(@.batch))),
                         busy |-> TRUE]]
    /\ UNCHANGED <<w_threads, w_raises, w_tasks, w_outqueue, w_chunk, w_delivered,
                   w_pc>>
    /\ UNCHANGED notWorld

\* the worker has finished its batch and puts the results on the queue
WorkerPut(w) ==
    /\ w_pc = "iterating"
    /\ w_workers[w].busy
    /\ w_workers[w].batch = <<>>
    /\ w_outqueue' = Append(w_outqueue, w_workers[w].results)
    /\ w_workers' = [w_workers EXCEPT ![w] = Idle]
    /\ UNCHANGED <<w_threads, w_raises, w_tasks, w_chunk, w_delivered, w_pc>>
    /\ UNCHANGED notWorld

\* the iterator receives the next finished batch
IteratorReceive ==
    /\ w_pc = "iterating"
    /\ w_chunk = <<>>
    /\ w_outqueue # <<>>
    /\ w_chunk' = Head(w_outqueue)
    /\ w_outqueue' = Tail(w_outqueue)
    /\ UNCHANGED <<w_threads, w_raises, w_tasks, w_workers, w_delivered, w_pc>>
    /\ UNCHANGED notWorld

\* `for x in p.imap_unordered(...): yield x`: the consumer is given the next
\* result; a result that is an exception raised by foo is re-raised here
Yield ==
    /\ w_pc = "iterating"
    /\ w_chunk # <<>>
    /\ IF Head(w_chunk).raised
       THEN w_pc' = "raised" /\ UNCHANGED w_delivered
       ELSE w_delivered' = Append(w_delivered, Head(w_chunk).value) /\ UNCHANGED w_pc
    /\ w_chunk' = Tail(w_chunk)
    /\ UNCHANGED <<w_threads, w_raises, w_tasks, w_workers, w_outqueue>>
    /\ UNCHANGED notWorld

\* every batch was yielded: the iterator is exhausted and the pool is left
Exhausted ==
    /\ w_pc = "iterating"
    /\ w_tasks = <<>>
    /\ w_outqueue = <<>>
    /\ w_chunk = <<>>
    /\ \A w \in Workers : ~ w_workers[w].busy
    /\ w_pc' = "exhausted"
    /\ UNCHANGED <<w_threads, w_raises, w_tasks, w_workers, w_outqueue, w_chunk,
                   w_delivered>>
    /\ UNCHANGED notWorld

(***************************************************************************)
(* A region file or an entities file through its life: from_file,          *)
(* reset_chunk any number of times, bytes() written to a file, and         *)
(* from_file on that file.                                                 *)
(***************************************************************************)
\* what an entry of the tables may hold
CodecEntries(i) ==
    { NoEntry,
      Entry(Body(100, ZLIB, TRUE, Nbt(i, 0, 1200)), i + 7),     \* one sector
      Entry(Body(5000, ZLIB, TRUE, Nbt(i, 0, 1200)), i + 7),    \* two sectors
      Entry(ZeroBody, i + 7),                                   \* length 0
      Entry(Body(100, 9, TRUE, Nbt(i, 0, 1200)), i + 7),        \* unknown scheme
      Entry(Body(100, GZIP, TRUE, Nbt(i, 0, 1200)), i + 7),
      Entry(Body(100, ZLIB, FALSE, Nbt(i, 0, 1200)), i + 7) }   \* does not inflate

CodecFiles ==
    { MakeFile(entries, order, unused, cut) :
        entries \in { e \in [Indices -> UNION {CodecEntries(i) : i \in Indices}] :
                        \A i \in Indices : e[i] \in CodecEntries(i) },
        order \in {Ascending, Descending},
        unused \in {0, 1},
        cut \in BOOLEAN }

\* from_file of the kind of file at hand
from_file(kind, file) ==
    IF kind = "region" THEN RegionFile_from_file(file) ELSE EntitiesFile_from_file(file)

\* the map of the object: RegionFile.chunk_data, EntitiesFile.entity_data
DataOf(kind, object) ==
    IF kind = "region" THEN object.chunk_data ELSE object.entity_data

\* RegionFile.__bytes__ (regions.py:116-117), EntitiesFile.__bytes__
\* (entities.py:68-69)
bytes_of(kind, object) == to_bytes(DataOf(kind, object))

NoObject == RegionFile(EmptyDict, FALSE)

CodecInit ==
    /\ c_kind \in {"region", "entities"}
    /\ c_file \in CodecFiles
    /\ c_loaded = Returned(None)
    /\ c_object = NoObject
    /\ c_resets = {}
    /\ c_calls = 0
    /\ c_trims = 0
    /\ c_removed = FALSE
    /\ c_saved = EmptyFile
    /\ c_reloaded = Returned(None)
    /\ c_pc = "file"

CodecIdle ==
    /\ c_kind = "region"
    /\ c_file = EmptyFile
    /\ c_loaded = Returned(None)
    /\ c_object = NoObject
    /\ c_resets = {}
    /\ c_calls = 0
    /\ c_trims = 0
    /\ c_removed = FALSE
    /\ c_saved = EmptyFile
    /\ c_reloaded = Returned(None)
    /\ c_pc = "idle"

CodecLoad ==
    /\ c_pc = "file"
    /\ c_loaded' = from_file(c_kind, c_file)
    /\ IF c_loaded'.raised
       THEN c_pc' = "raised" /\ UNCHANGED c_object
       ELSE c_pc' = "loaded" /\ c_object' = Val(c_loaded'.value)
    /\ UNCHANGED <<c_kind, c_file, c_resets, c_calls, c_trims, c_removed, c_saved,
                   c_reloaded>>
    /\ UNCHANGED notCodec

CodecResetChunk(index) ==
    /\ c_pc = "loaded"
    /\ c_calls < MaxResets
    /\ c_object' = IF c_kind = "region" THEN RegionFile_reset_chunk(c_object, index)
                   ELSE EntitiesFile_reset_chunk(c_object, index)
    /\ c_resets' = c_resets \cup {index}
    /\ c_calls' = c_calls + 1
    /\ c_removed' = (c_removed \/ index \in DOMAIN DataOf(c_kind, c_object))
    /\ UNCHANGED <<c_kind, c_file, c_loaded, c_trims, c_saved, c_reloaded, c_pc>>
    /\ UNCHANGED notCodec

\* trim(condition): the condition holds for the payloads at `holds`
CodecTrim(holds) ==
    /\ c_pc = "loaded"
    /\ c_trims < MaxTrims
    /\ c_object' = IF c_kind = "region" THEN RegionFile_trim(c_object, holds)
                   ELSE EntitiesFile_trim(c_object, holds)
    /\ c_trims' = c_trims + 1
    /\ c_removed' = IF c_kind = "region" THEN c_removed       \* no reset_chunk call
                    ELSE c_removed \/ DOMAIN c_object.entity_data \cap holds # {}
    /\ UNCHANGED <<c_kind, c_file, c_loaded, c_resets, c_calls, c_saved, c_reloaded,
                   c_pc>>
    /\ UNCHANGED notCodec

CodecSave ==
    /\ c_pc = "loaded"
    /\ c_saved' = bytes_of(c_kind, c_object)
    /\ c_pc' = "saved"
    /\ UNCHANGED <<c_kind, c_file, c_loaded, c_object, c_resets, c_calls, c_trims,
                   c_removed, c_reloaded>>
    /\ UNCHANGED notCodec

CodecReload ==
    /\ c_pc = "saved"
    /\ c_reloaded' = from_file(c_kind, c_saved)
    /\ c_pc' = "reloaded"
    /\ UNCHANGED <<c_kind, c_file, c_loaded, c_object, c_resets, c_calls, c_trims,
                   c_removed, c_saved>>
    /\ UNCHANGED notCodec

(***************************************************************************)
(* _radially_expand_selection (commands.py:265-312) batch by batch.  The   *)
(* selected coordinates are cut into batches of at most batch_size by      *)
(* itertools.batched, in the iteration order of a set, which is arbitrary; *)
(* the pool returns the batches' results in completion order.  Here a      *)
(* batch is any part of the coordinates not yet handed out.                *)
(***************************************************************************)
batch_size == 500

Grid == (-1 .. 1) \X (0 .. 1)

ExpandInit ==
    /\ e_radius \in 1 .. MaxRadius
    /\ \E cells \in SUBSET Grid :
            e_available = {ChunkMetadata(c[1], c[2], 1) : c \in cells}
    /\ e_selection \in SUBSET e_available
    /\ e_todo = {Coord(c) : c \in e_selection}
    /\ e_inflight = {}
    /\ e_received = 0
    /\ e_coords_to_include = {}
    /\ e_result = {}
    /\ e_pc = "pool"

ExpandIdle ==
    /\ e_radius = 1
    /\ e_available = {}
    /\ e_selection = {}
    /\ e_todo = {}
    /\ e_inflight = {}
    /\ e_received = 0
    /\ e_coords_to_include = {}
    /\ e_result = {}
    /\ e_pc = "idle"

\* the next batch of itertools.batched(selected_coords, n=batch_size) is
\* handed to the pool
ExpandBatch(batch) ==
    /\ e_pc = "pool"
    /\ batch # {}
    /\ batch \subseteq e_todo
    /\ Cardinality(batch) <= batch_size
    /\ e_todo' = e_todo \ batch
    /\ e_inflight' = e_inflight \cup {batch}
    /\ UNCHANGED <<e_radius, e_available, e_selection, e_received,
                   e_coords_to_include, e_result, e_pc>>
    /\ UNCHANGED notExpand

\* the result of one batch arrives (line 310):
\* coords_to_include.update(res & currently_unselected_coords)
ExpandReceive(batch) ==
    /\ e_pc = "pool"
    /\ batch \in e_inflight
    /\ LET res == filter_for_neighbors(make_circular_kernel(e_radius), batch)
           currently_unselected_coords ==
               {Coord(c) : c \in SetDifference(e_available, e_selection)}
       IN  e_coords_to_include' =
               e_coords_to_include \cup (res \cap currently_unselected_coords)
    /\ e_inflight' = e_inflight \ {batch}
    /\ e_received' = e_received + 1
    /\ UNCHANGED <<e_radius, e_available, e_selection, e_todo, e_result, e_pc>>
    /\ UNCHANGED notExpand

\* every batch is back (line 311), and execute updates the selection with
\* what is returned (commands.py:224-233)
ExpandReturn ==
    /\ e_pc = "pool"
    /\ e_todo = {}
    /\ e_inflight = {}
    /\ LET expanded_selection ==
               SetUpdateFrom(e_selection,
                   {c \in e_available : Coord(c) \in e_coords_to_include})
       IN  e_result' = SetUpdateFrom(e_selection, expanded_selection)
    /\ e_pc' = "returned"
    /\ UNCHANGED <<e_radius, e_available, e_selection, e_todo, e_inflight,
                   e_received, e_coords_to_include>>
    /\ UNCHANGED notExpand

(***************************************************************************)
(* Region.reset_chunk and Region.iterate (regions.py:163-175) on a region  *)
(* opened from a region file and an entities file; every index is in the   *)
(* chunk map only, in the entities map only, in both or in neither.        *)
(***************************************************************************)
\* the Region open_file builds from files with chunks at the indices C and
\* entities at the indices E
OpenedRegion(C, E) ==
    LET region_file ==
            MakeFile([i \in Indices |->
                         IF i \in C THEN Entry(ChunkBody(i, Some(i)), i + 1) ELSE NoEntry],
                     Ascending, 0, FALSE)
        entities_file ==
            MakeFile([i \in Indices |->
                         IF i \in E THEN Entry(EntityBody, i + 1) ELSE NoEntry],
                     Ascending, 0, FALSE)
    IN  Region(Val(RegionFile_from_file(region_file).value),
               Val(EntitiesFile_from_file(entities_file).value))

RegionInit ==
    /\ \E C \in SUBSET Indices, E \in SUBSET Indices : r_region = OpenedRegion(C, E)
    /\ r_loaded = r_region
    /\ r_resets = {}
    /\ r_calls = 0
    /\ r_todo = {}
    /\ r_yielded = <<>>
    /\ r_pc = "open"

RegionIdle ==
    /\ r_region = NoRegion
    /\ r_loaded = NoRegion
    /\ r_resets = {}
    /\ r_calls = 0
    /\ r_todo = {}
    /\ r_yielded = <<>>
    /\ r_pc = "idle"

\* region.reset_chunk(index), for any index, before or after an iteration
RegionResetChunk(index) ==
    /\ r_pc \in {"open", "done"}
    /\ r_calls < MaxResets
    /\ r_region' = Region_reset_chunk(r_region, index)
    /\ r_resets' = r_resets \cup {index}
    /\ r_calls' = r_calls + 1
    /\ r_todo' = {}
    /\ r_yielded' = <<>>
    /\ r_pc' = "open"
    /\ UNCHANGED r_loaded
    /\ UNCHANGED notRegion

\* region.iterate() (line 164): the set of indices is built first
RegionIterate ==
    /\ r_pc = "open"
    /\ r_todo' = full_outer_join(r_region)
    /\ r_yielded' = <<>>
    /\ r_pc' = "iterating"
    /\ UNCHANGED <<r_region, r_loaded, r_resets, r_calls>>
    /\ UNCHANGED notRegion

\* one turn of the loop (lines 165-171); a set is iterated in any order
RegionYield(i) ==
    /\ r_pc = "iterating"
    /\ i \in r_todo
    /\ r_yielded' = Append(r_yielded,
                        <<i, iterate_chunk(r_region, i), iterate_entity(r_region, i)>>)
    /\ r_todo' = r_todo \ {i}
    /\ UNCHANGED <<r_region, r_loaded, r_resets, r_calls, r_pc>>
    /\ UNCHANGED notRegion

\* the generator is exhausted
RegionIterateEnd ==
    /\ r_pc = "iterating"
    /\ r_todo = {}
    /\ r_pc' = "done"
    /\ UNCHANGED <<r_region, r_loaded, r_resets, r_calls, r_todo, r_yielded>>
    /\ UNCHANGED notRegion

(***************************************************************************)
(* Specifications.                                                         *)
(***************************************************************************)
\* PipelineExecutor.execute
Init ==
    /\ PipeInit /\ FilterIdle /\ TrimIdle /\ WorldIdle /\ CodecIdle /\ ExpandIdle
    /\ RegionIdle

Next ==
    \/ \E name \in RegionNames : GatherResult(name)
    \/ SetupSeed
    \/ \E condition \in Condition : StepFilter(condition)
    \/ \E condition \in Condition : StepExtend(condition)
    \/ \E radius \in 1 .. MaxRadius : StepRadiallyExpand(radius)
    \/ StepSaveSelection
    \/ \E command \in UnimplementedCommands : StepUnimplemented(command)
    \/ ChainEnd

Spec == Init /\ [][Next]_vars

\* _make_filter
InitFilter ==
    /\ FilterInit /\ PipeIdle /\ TrimIdle /\ WorldIdle /\ CodecIdle /\ ExpandIdle
    /\ RegionIdle
NextFilter == ApplyFilter
SpecFilter == InitFilter /\ [][NextFilter]_vars

\* Trim.run
InitTrim ==
    /\ TrimInit /\ PipeIdle /\ FilterIdle /\ WorldIdle /\ CodecIdle /\ ExpandIdle
    /\ RegionIdle
NextTrim ==
    \/ TrimOpen
    \/ \E i \in Indices : TrimVisit(i)
    \/ TrimLoopEnd
    \/ \E succeeds \in BOOLEAN : SaveRegionBackup(succeeds)
    \/ SaveRegionWrite
    \/ SaveRegionUnchanged
    \/ \E succeeds \in BOOLEAN : SaveEntitiesBackup(succeeds)
    \/ SaveEntitiesWrite
    \/ SaveEntitiesUnchanged
SpecTrim == InitTrim /\ [][NextTrim]_vars

\* process_world, drained by its consumer.  The workers are processes of
\* their own and the consumer keeps asking for the next result: no step
\* that can be taken is put off for ever.
InitWorld ==
    /\ WorldInit /\ PipeIdle /\ FilterIdle /\ TrimIdle /\ CodecIdle /\ ExpandIdle
    /\ RegionIdle
NextWorld ==
    \/ \E w \in Workers : WorkerTake(w)
    \/ \E w \in Workers : WorkerRun(w)
    \/ \E w \in Workers : WorkerPut(w)
    \/ IteratorReceive
    \/ Yield
    \/ Exhausted
SpecWorld == InitWorld /\ [][NextWorld]_vars /\ WF_vars(NextWorld)

\* a region / entities file: load, reset_chunk, save, load again
InitCodec ==
    /\ CodecInit /\ PipeIdle /\ FilterIdle /\ TrimIdle /\ WorldIdle /\ ExpandIdle
    /\ RegionIdle
NextCodec ==
    \/ CodecLoad
    \/ \E index \in Indices : CodecResetChunk(index)
    \/ \E holds \in SUBSET Indices : CodecTrim(holds)
    \/ CodecSave
    \/ CodecReload
SpecCodec == InitCodec /\ [][NextCodec]_vars

\* _radially_expand_selection on any available set, selection and radius
InitExpand ==
    /\ ExpandInit /\ PipeIdle /\ FilterIdle /\ TrimIdle /\ WorldIdle /\ CodecIdle
    /\ RegionIdle
NextExpand ==
    \/ \E batch \in SUBSET e_todo : ExpandBatch(batch)
    \/ \E batch \in e_inflight : ExpandReceive(batch)
    \/ ExpandReturn
SpecExpand == InitExpand /\ [][NextExpand]_vars

\* Region.reset_chunk and Region.iterate on any paired region / entities maps
InitRegion ==
    /\ RegionInit /\ PipeIdle /\ FilterIdle /\ TrimIdle /\ WorldIdle /\ CodecIdle
    /\ ExpandIdle
NextRegion ==
    \/ \E index \in Indices : RegionResetChunk(index)
    \/ RegionIterate
    \/ \E i \in r_todo : RegionYield(i)
    \/ RegionIterateEnd
SpecRegion == InitRegion /\ [][NextRegion]_vars

(***************************************************************************)
(* Properties.                                                             *)
(***************************************************************************)

\* C1: once setup is over, i.e. after setup and after every executed step,
\* every selected chunk is an available chunk.
C1_SelectedSubsetOfAvailable ==
    exec_pc \in {"chain", "finished", "raised"}
        => selected_chunks \subseteq available_chunks

\* C1 witness: at least two steps were executed and the selection is a
\* non-empty proper part of the available chunks.
C1_Witness ==
    /\ exec_pc = "chain"
    /\ step_nr >= 2
    /\ last_step.command = "radially_expand_selection"
    /\ selected_chunks # {}
    /\ selected_chunks # available_chunks

\* C2: the predicate built by _make_filter accepts a chunk exactly when its
\* inhabited_time is at least floor(minimum * 1200), if a minimum is set, and
\* at most ceil(maximum * 1200), if a maximum is set.
C2_Accepts(condition, chunk) ==
    /\ (IsSet(condition.minimum_inhabited_minutes)
            => chunk.inhabited_time >= MinTicks(condition))
    /\ (IsSet(condition.maximum_inhabited_minutes)
            => chunk.inhabited_time <= MaxTicks(condition))

C2_EachBoundHasItsOwnTicks ==
    f_pc = "called" => (f_result <=> C2_Accepts(f_condition, f_chunk))

\* the region file of the run as open_file loads it
TrimLoaded == Val(RegionFile_from_file(files_before["inp/region"].file).value)
InLog(op) == \E k \in 1 .. Len(t_log) : t_log[k] = op
Precedes(first, second) ==
    \A k \in 1 .. Len(t_log) :
        t_log[k] = second => \E j \in 1 .. k - 1 : t_log[j] = first
TrimIsOver == t_pc \in {"save_region", "write_region", "save_entities",
                        "write_entities", "returned"}

\* C3: when Trim has gone through a region with criteria key inhabited_time<K,
\* the chunks evicted are exactly those whose InhabitedTime is strictly below
\* the key's ticks; every other chunk is still there.
C3_EvictsStrictlyBelow ==
    TrimIsOver =>
        \A i \in DOMAIN TrimLoaded.chunk_data :
            (i \notin DOMAIN t_region.region.chunk_data)
                <=> (Val(TrimLoaded.chunk_data[i].data.decompressed_data.InhabitedTime)
                        < CriteriaTicks(t_criteria))

\* C4: with a backup path configured, whenever the output region (entities)
\* file has been written from a dirty region (entities), the backup copy was
\* made before and the backup file holds the original input bytes; and when
\* the backup copy failed, the output file was not written.
C4_BackupBeforeWrite ==
    /\ (t_paths.backup_region # None /\ InLog("write_region"))
            => /\ Precedes("backup_region", "write_region")
               /\ files[Val(t_paths.backup_region)] = files_before[t_paths.inp_region]
    /\ (t_paths.backup_entities # None /\ InLog("write_entities"))
            => /\ Precedes("backup_entities", "write_entities")
               /\ files[Val(t_paths.backup_entities)] = files_before[t_paths.inp_entities]
    /\ (t_exception = "OSError" /\ ~ InLog("backup_region"))
            => files[t_paths.outp_region] = files_before[t_paths.outp_region]
    /\ (t_exception = "OSError" /\ ~ InLog("backup_entities"))
            => files[t_paths.outp_entities] = files_before[t_paths.outp_entities]

\* C4 witness: an in-place run that backed up and then overwrote both files.
C4_Witness ==
    /\ t_pc = "returned"
    /\ t_paths.outp_region = t_paths.inp_region
    /\ t_log = <<"backup_region", "write_region", "backup_entities", "write_entities">>
    /\ files[t_paths.inp_region] # files_before[t_paths.inp_region]
    /\ files["backup/region"] = files_before[t_paths.inp_region]

\* C5: a region (entities) file that is not dirty is not written anew: with
\* an output path other than the input path the output file is a copy of the
\* input file, with the same path nothing is written; no backup is made; and
\* when there is no entities file on input, none is created on output.
C5_UnchangedIsCopied ==
    /\ (t_pc \in {"save_entities", "write_entities", "returned"}
            /\ ~ t_region.region.dirty)
            => /\ files[t_paths.outp_region] = files_before[t_paths.inp_region]
               /\ files["backup/region"] = Absent
               /\ ~ InLog("write_region")
               /\ (t_paths.outp_region = t_paths.inp_region => ~ InLog("copy_region"))
    /\ (t_pc = "returned" /\ ~ t_region.entities.dirty)
            => /\ files[t_paths.outp_entities] = files_before[t_paths.inp_entities]
               /\ files["backup/entities"] = Absent
               /\ ~ InLog("write_entities")
               /\ (t_paths.outp_entities = t_paths.inp_entities
                        => ~ InLog("copy_entities"))
    /\ (~ files_before["inp/entities"].exists) => files["outp/entities"] = Absent

\* C5 witness: a run to another directory that changed nothing, on a region
\* with a chunk and an entity: both files were copied.
C5_Witness ==
    /\ t_pc = "returned"
    /\ t_paths.outp_region # t_paths.inp_region
    /\ ~ t_region.region.dirty
    /\ ~ t_region.entities.dirty
    /\ DOMAIN t_region.region.chunk_data # {}
    /\ DOMAIN t_region.entities.entity_data # {}
    /\ t_log = <<"copy_region", "copy_entities">>
    /\ files["outp/region"] # OnDisk(to_bytes(t_region.region.chunk_data))

\* C6: open_file on a name that has no entities file returns, without
\* raising, a Region whose entities are empty and not dirty.
C6_AbsentEntitiesOpenEmpty ==
    (t_pc # "open"
        /\ ~ files_before["inp/entities"].exists
        /\ ~ RegionFile_from_file(files_before["inp/region"].file).raised)
        => /\ t_exception # "TypeError"
           /\ t_pc = "trim" => /\ DOMAIN t_region.entities.entity_data = {}
                               /\ ~ t_region.entities.dirty

\* the entries of a file that decode: a location in use, a length above 0,
\* and data that the loader of the kind of file decompresses
Decodable(kind, file, i) ==
    LET loc == file.locations[i + 1]
        data == Slice(file, loc)
    IN  /\ loc.size > 0 /\ loc.offset >= 2
        /\ ByteLen(data) >= CHUNK_HEADER_SIZE
        /\ data.sectors[1].body.length > 0
        /\ IF kind = "region"
           THEN data.sectors[1].body.compression = ZLIB /\ data.sectors[1].body.inflates
           ELSE /\ data.sectors[1].body.compression \in Compression
                /\ decompress(data.sectors[1].body) # None

\* C7: loading a region or entities file in which some entry does not
\* decode (length 0, bad compression, or a known compression other than
\* ZLIB) completes: the undecodable entries are skipped and every entry that
\* decodes is in the loaded object at its index.
C7_UndecodableEntriesAreSkipped ==
    c_pc \notin {"idle", "file"}
        => /\ ~ c_loaded.raised
           /\ \A i \in Indices :
                (i \in DOMAIN DataOf(c_kind, Val(c_loaded.value)))
                    <=> Decodable(c_kind, c_file, i)

\* C8: when the consumer drains process_world, every name gets exactly one
\* result, the value of command.run for it or a CommandError when
\* command.run raised for it, whatever happened to the other names; and the
\* iterator does get exhausted.
ResultOf(region_name) ==
    [name |-> region_name,
     kind |-> IF region_name \in w_raises THEN "CommandError" ELSE "value"]

C8_Delivered ==
    /\ w_pc # "raised"
    /\ \A k \in 1 .. Len(w_delivered) :
            /\ w_delivered[k] = ResultOf(w_delivered[k].name)
            /\ \A j \in 1 .. Len(w_delivered) :
                    w_delivered[j].name = w_delivered[k].name => j = k
    /\ w_pc = "exhausted" =>
            \A n \in 1 .. NumNames : \E k \in 1 .. Len(w_delivered) :
                w_delivered[k].name = n

C8_OneResultPerName == [] C8_Delivered /\ <> (w_pc = "exhausted")

\* C8 witness: all results were delivered, a CommandError among them, and
\* not in the order of the names.
C8_Witness ==
    /\ w_pc = "exhausted"
    /\ Len(w_delivered) = NumNames
    /\ w_delivered[1].name # 1
    /\ \E k \in 1 .. NumNames : w_delivered[k].kind = "CommandError"
    /\ \E k \in 1 .. NumNames : w_delivered[k].kind = "value"


\* length in bytes of a region file: the two tables and the payload sectors
FileLen(file) == 2 * SECTOR + Len(file.sectors) * SECTOR - file.missing

\* sum over the indices in S of ceil(chunk size / SECTOR)
RECURSIVE SectorsNeeded(_, _)
SectorsNeeded(data, S) ==
    IF S = {} THEN 0
    ELSE LET i == CHOOSE j \in S : TRUE
         IN  Ceil(SIZE(data[i].data), SECTOR) + SectorsNeeded(data, S \ {i})

LoadedData == DataOf(c_kind, Val(c_loaded.value))
ReloadedData == DataOf(c_kind, Val(c_reloaded.value))

\* C9: after reset_chunk on any set of indices of a loaded RegionFile,
\* saving and loading again gives the indices that were loaded minus those
\* reset, and the file written is 2 * SECTOR bytes plus, for each remaining
\* chunk, ceil(chunk size / SECTOR) * SECTOR bytes.
C9_ResetSaveReload ==
    (c_pc = "reloaded" /\ c_trims = 0)
        => /\ ~ c_reloaded.raised
           /\ DOMAIN ReloadedData = DOMAIN LoadedData \ c_resets
           /\ FileLen(c_saved) =
                2 * SECTOR
                + SectorsNeeded(LoadedData, DOMAIN LoadedData \ c_resets) * SECTOR

\* C9 witness: a RegionFile with two chunks, one of them reset; the one
\* that remains has a size that is not a whole number of sectors.
C9_Witness ==
    /\ c_pc = "reloaded"
    /\ c_trims = 0
    /\ c_kind = "region"
    /\ \E i \in DOMAIN LoadedData \cap c_resets :
       \E j \in DOMAIN LoadedData \ c_resets :
            /\ SIZE(LoadedData[j].data) % SECTOR # 0
            /\ j \in DOMAIN ReloadedData
            /\ i \notin DOMAIN ReloadedData

\* the indices at which a map holds a chunk that is not empty
NonEmptyIndices(data) == {i \in DOMAIN data : SIZE(data[i].data) > 0}

\* C10: a loaded region that is saved and loaded again has the same
\* non-empty indices, and at each of them the same stored compressed chunk
\* bytes and the same timestamp.
C10_RoundTrip ==
    (c_pc = "reloaded" /\ c_kind = "region")
        => /\ ~ c_reloaded.raised
           /\ NonEmptyIndices(ReloadedData) = NonEmptyIndices(c_object.chunk_data)
           /\ \A i \in NonEmptyIndices(c_object.chunk_data) :
                /\ ReloadedData[i].data.compressed_data
                        = c_object.chunk_data[i].data.compressed_data
                /\ ReloadedData[i].timestamp = c_object.chunk_data[i].timestamp

\* C11: in the bytes written by a save the file length is a multiple of
\* SECTOR; every entry in use has offset >= 2 and ends within the file; the
\* sector intervals of the entries in use are pairwise disjoint and follow
\* each other in ascending index order, the first at sector 2; and every
\* empty index has Location(0, 0).
C11_SavedLayout ==
    c_pc \in {"saved", "reloaded"}
        => LET used == NonEmptyIndices(DataOf(c_kind, c_object))
               loc(i) == c_saved.locations[i + 1]
           IN  /\ FileLen(c_saved) % SECTOR = 0
               /\ \A i \in Indices \ used : loc(i) = Location(0, 0)
               /\ \A i \in used :
                    /\ loc(i).size >= 1
                    /\ loc(i).offset >= 2
                    /\ (loc(i).offset + loc(i).size) * SECTOR <= FileLen(c_saved)
                    /\ (\A j \in used : j >= i) => loc(i).offset = 2
               /\ \A i, j \in used :
                    i < j => loc(i).offset + loc(i).size <= loc(j).offset
               /\ \A i, j \in used :
                    i # j => \/ loc(i).offset + loc(i).size - 1 < loc(j).offset
                             \/ loc(j).offset + loc(j).size - 1 < loc(i).offset

\* C11 witness: a region file whose payloads lay in descending index order
\* after an unused sector, one of them two sectors long, has been saved.
C11_Witness ==
    /\ c_pc = "saved"
    /\ c_kind = "region"
    /\ NonEmptyIndices(c_object.chunk_data) = Indices
    /\ c_file.locations[1].offset > c_file.locations[2].offset
    /\ c_file.locations[MaxIndex + 1].offset = 3
    /\ \E i \in Indices : c_saved.locations[i + 1].size = 2
    /\ c_saved.locations[1].offset = 2


\* C12: for a RegionFile and for an EntitiesFile, after any sequence of
\* reset_chunk and trim calls since the load, dirty is true if and only if
\* some reset_chunk call removed an entry from the map.
C12_DirtyIffRemoved ==
    c_pc \in {"loaded", "saved", "reloaded"} => (c_object.dirty <=> c_removed)


\* C13: executing an invert_selection step sets selected to
\* available \ selected and leaves available unchanged (and the chain goes
\* on to its next step).
C13_InvertSelection ==
    [][(exec_pc = "chain" /\ last_step'.command = "invert_selection")
            => /\ exec_pc' = "chain"
               /\ selected_chunks' = SetDifference(available_chunks, selected_chunks)
               /\ available_chunks' = available_chunks]_vars


\* squared distance between two chunks
Distance2(c, s) == (c.x - s.x) * (c.x - s.x) + (c.y - s.y) * (c.y - s.y)

\* C14: after a radially_expand_selection step with radius r, selected is
\* the old selected united with every chunk c of available for which some
\* old-selected chunk s has 0 < (c.x-s.x)^2 + (c.y-s.y)^2 <= r^2, and nothing
\* else, for every cut of the selection into batches and every completion
\* order of the batches; the selection does not shrink.
C14_RadialExpansion ==
    e_pc = "returned"
        => /\ e_result =
                e_selection \cup
                {c \in e_available :
                    \E s \in e_selection :
                        Distance2(c, s) > 0 /\ Distance2(c, s) <= e_radius * e_radius}
           /\ e_selection \subseteq e_result
           /\ e_result = radially_expand_selection(e_radius, e_available, e_selection)

\* C14 witness: a selection of several chunks went to the pool in more than
\* one batch; chunks were added, and a chunk of available beyond the radius
\* was not.
C14_Witness ==
    /\ e_pc = "returned"
    /\ e_received >= 2
    /\ Cardinality(e_selection) >= 2
    /\ e_result # e_selection
    /\ e_result # e_available


\* the orders in which the results of the regions may arrive
ArrivalOrders ==
    {o \in [1 .. Cardinality(RegionNames) -> RegionNames] :
        \A j, k \in DOMAIN o : o[j] = o[k] => j = k}

\* the available set when the results arrive in the order `order`
RECURSIVE AvailableInOrder(_, _)
AvailableInOrder(order, acc) ==
    IF order = <<>> THEN acc
    ELSE LET result == GatherMetadataRun(Head(order))
         IN  AvailableInOrder(Tail(order),
                 IF result.error THEN acc ELSE SetUpdate(acc, result.content))

\* C15: the available set built by _gather_all_chunks, with the
\* inhabited_time of each ChunkMetadata, is the same for every order in
\* which the results of the regions arrive, also when two regions report a
\* chunk at the same (x, y) with different inhabited_time.
C15_AvailableIndependentOfOrder ==
    (exec_pc = "gather" /\ pending = {})
        => \A order \in ArrivalOrders :
                available_chunks = AvailableInOrder(order, {})


\* a divided by 32, rounded toward negative infinity
FloorBy32(a) == CHOOSE q \in -64 .. 64 : 32 * q <= a /\ a < 32 * (q + 1)

\* C16: a save_selection step writes exactly one row per selected chunk
\* (x, y), with no header, of the form region_x;region_y;chunk_x;chunk_y
\* terminated by LF, where region_x and region_y are x and y divided by 32
\* with flooring toward negative infinity, and the step leaves selected and
\* available unchanged.
C16_SaveSelection ==
    [][(last_step'.command = "save_selection" /\ step_nr' = step_nr + 1)
            => /\ csv_file'.exists
               /\ csv_file'.header = None
               /\ csv_file'.delimiter = ";"
               /\ csv_file'.lineterminator = "\n"
               /\ DOMAIN csv_file'.rows =
                    {<<FloorBy32(c.x), FloorBy32(c.y), c.x, c.y>> : c \in selected_chunks}
               /\ \A row \in DOMAIN csv_file'.rows : csv_file'.rows[row] = 1
               /\ selected_chunks' = selected_chunks
               /\ available_chunks' = available_chunks]_vars

\* C16 witness: a selection with a chunk at a negative coordinate and a
\* chunk at (0, 0) has been saved: the file holds -1;0;-1;0 and 0;0;0;0.
C16_Witness ==
    /\ last_step.command = "save_selection"
    /\ csv_file.exists
    /\ <<-1, 0, -1, 0>> \in DOMAIN csv_file.rows
    /\ <<0, 0, 0, 0>> \in DOMAIN csv_file.rows
    /\ \E c \in available_chunks : c \notin selected_chunks


\* the chunks of the world whose region opened and whose xPos, zPos and
\* InhabitedTime reads all succeed with InhabitedTime >= 0
ReadableChunks ==
    UNION {{world[n].chunks[i] : i \in DOMAIN world[n].chunks}
             : n \in {m \in RegionNames : ~ world[m].error}}
GoodChunks ==
    {c \in ReadableChunks : /\ c.xPos /= None
                            /\ c.zPos /= None
                            /\ c.InhabitedTime /= None
                            /\ Val(c.InhabitedTime) >= 0}

\* C17: every ChunkMetadata in available was emitted for a chunk of a
\* successfully loaded region whose xPos, zPos and InhabitedTime reads all
\* succeeded with InhabitedTime >= 0; and once every region has reported,
\* every such chunk has its coordinates in available, whatever chunk failed
\* before it in its region (the empty chunk of an entity-only index
\* included) and whichever other region failed as a whole.
C17_GatheredProvenance ==
    /\ \A m \in available_chunks :
          /\ m.inhabited_time >= 0
          /\ \E c \in GoodChunks :
                m = ChunkMetadata(Val(c.xPos), Val(c.zPos), Val(c.InhabitedTime))
    /\ pending = {} =>
          \A c \in GoodChunks :
              \E m \in available_chunks : m.x = Val(c.xPos) /\ m.y = Val(c.zPos)

\* C17 witness: setup is over in a world where one region failed as a whole
\* and another yields a good chunk, then the empty chunk of an entity-only
\* index, then a good chunk; the chunk after the failure was gathered.
C17_Witness ==
    /\ exec_pc = "chain"
    /\ world["r.0.0.mca"].error
    /\ world["r.0.1.mca"].chunks = <<Nbt(0, 1, 0), SentinelNbt, Nbt(1, 1, 1)>>
    /\ ChunkMetadata(1, 1, 1) \in available_chunks
    /\ \A m \in available_chunks : m.x /= 1 \/ m.y /= 0


\* C18: after any sequence of Region.reset_chunk calls every index that was
\* reset is absent from the chunk map and from the entities map, every
\* index that was not reset is in both maps what it was when the region
\* was opened, and Region.iterate yields each index of the union of the two
\* maps exactly once, with the empty Chunk or the empty Entity for the
\* side that lacks the index.
C18_ResetAndIterate ==
    LET chunks == r_region.region.chunk_data
        entities == r_region.entities.entity_data
        chunks0 == r_loaded.region.chunk_data
        entities0 == r_loaded.entities.entity_data
        union == DOMAIN chunks \cup DOMAIN entities
    IN  r_pc # "idle" =>
          /\ \A i \in r_resets : i \notin DOMAIN chunks /\ i \notin DOMAIN entities
          /\ \A i \in Indices \ r_resets :
                /\ i \in DOMAIN chunks <=> i \in DOMAIN chunks0
                /\ i \in DOMAIN chunks => chunks[i] = chunks0[i]
                /\ i \in DOMAIN entities <=> i \in DOMAIN entities0
                /\ i \in DOMAIN entities => entities[i] = entities0[i]
          /\ r_pc = "done" =>
                /\ \A i \in union :
                      Cardinality({k \in DOMAIN r_yielded : r_yielded[k][1] = i}) = 1
                /\ \A k \in DOMAIN r_yielded :
                      LET i == r_yielded[k][1]
                      IN  /\ i \in union
                          /\ r_yielded[k][2] =
                                IF i \in DOMAIN chunks THEN chunks[i].data
                                ELSE Chunk(EmptyBytes, NoNbt)
                          /\ r_yielded[k][3] =
                                IF i \in DOMAIN entities THEN entities[i].data
                                ELSE Entity(EmptyBytes, NoNbt)

\* C18 witness: an index that was in both maps has been reset, and the
\* iteration that followed yielded an index only the entities map holds,
\* with the empty Chunk.
C18_Witness ==
    /\ r_pc = "done"
    /\ \E i \in r_resets : /\ i \in DOMAIN r_loaded.region.chunk_data
                            /\ i \in DOMAIN r_loaded.entities.entity_data
    /\ \E k \in DOMAIN r_yielded :
          /\ r_yielded[k][2] = EmptyChunk
          /\ r_yielded[k][3] # EmptyEntity


\* C19: while Trim runs on a region that opened, a chunk whose InhabitedTime
\* cannot be read (the field is missing, the value is negative, or the index
\* is only in the entities file and the chunk is the empty one) is skipped:
\* the run does not end with the exception of that read, and the chunk is
\* not evicted.
C19_UnreadableChunkSkipped ==
    LET opened == open_file(t_paths, files_before)
    IN  (t_pc \notin {"idle", "open"} /\ ~ opened.raised) =>
            /\ t_exception \notin {"LookupError", "AssertionError"}
            /\ \A i \in DOMAIN Val(opened.value).region.chunk_data :
                  Chunk_InhabitedTime(Val(opened.value).region.chunk_data[i].data).raised
                      => i \in DOMAIN t_region.region.chunk_data


\* C20: once setup has finished, no pipeline step changes the available
\* set, whether the selection started as the very same set object
\* (start_with = ALL) or as an empty set of its own (start_with = NONE):
\* after a filter_selection, extend_selection, radially_expand_selection or
\* save_selection step, available is what it was before the step.
C20_AvailableUnchangedBySteps ==
    [][exec_pc = "chain" => available_chunks' = available_chunks]_vars

\* C20 witness: the selection is still the same set object as available
\* after two steps, the last of which updated it in place.
C20_Witness ==
    /\ exec_pc = "chain"
    /\ start_with = ALL_CHUNKS_SELECTED
    /\ aliased
    /\ step_nr >= 2
    /\ last_step.command \in {"extend_selection", "radially_expand_selection"}
    /\ Cardinality(available_chunks) >= 2


\* C21: a chain with a step of kind delete_selected_chunks,
\* select_affected_regions, invert_selection or move_selected is not
\* rejected before work starts.  execute raises only at that step: the
\* metadata of every region has been gathered by then, the effects of the
\* earlier steps (the selection, the CSV file written) are what they were
\* left at, and after the raise no step is executed any more.
C21_RaisesAtUnimplementedStep ==
    [][/\ (exec_pc = "chain" /\ last_step'.command \in UnimplementedCommands)
            => /\ exec_pc' = "raised"
               /\ pending = {}
               /\ UNCHANGED <<available_chunks, selected_chunks, csv_file, step_nr>>
       /\ (exec_pc # "raised" /\ exec_pc' = "raised")
            => /\ exec_pc = "chain"
               /\ last_step'.command \in UnimplementedCommands
       /\ exec_pc = "raised" => UNCHANGED pipeVars]_vars

\* C21 witness: the chain raised at a move_selected step after two earlier
\* steps had run, one of which wrote the CSV file of a non-empty selection.
C21_Witness ==
    /\ exec_pc = "raised"
    /\ last_step.command = "move_selected"
    /\ step_nr = 2
    /\ csv_file.exists
    /\ DOMAIN csv_file.rows # {}
    /\ selected_chunks # {}

=============================================================================
